---- MODULE Spec2Model ----
(***************************************************************************)
(* ufolint: MainRunner.run (lib/ufolint/controllers/runner.py).            *)
(*                                                                         *)
(* One run of the linter over one UFO package.  The package under test     *)
(* (directory, files, manifest values) is fixed by Init and never written. *)
(* The run is cut into one step per check; a check that streams a Result   *)
(* with test_failed and exit_failure set ends the process (sys.exit(1)).   *)
(***************************************************************************)
EXTENDS Integers, Sequences, FiniteSets, TLC

(* ------------------------------ bounds --------------------------------- *)
\* number of glyph layers a package may hold on disk / list in layercontents
MaxLayers == 2
\* formatVersion values run over 1..MaxVersion
MaxVersion == 4
\* length the failure list of one run may reach through the plist validators
MaxFailures == 3

(* --------------------------- the package ------------------------------- *)
VARIABLES
    ufopath,            \* sys.argv[1], a sequence of characters
    pkgDirExists,       \* the path is an existing directory
    metainfoState,      \* metainfo.plist: "absent", "malformed" or "ok"
    formatVersion,      \* value stored under 'formatVersion' in metainfo.plist
    readerFault,        \* what ufoLib.UFOReader(path) raises, or "none"
    layercontentsState, \* layercontents.plist: "absent", "malformed" or "ok"
    layercontents,      \* the list layercontents.plist decodes to
    glyphsDirsOnDisk,   \* glyph directories that exist in the package
    contentsOnDisk      \* glyph directories that hold a contents.plist

(* -------------------------- the runner --------------------------------- *)
VARIABLES
    pc,                  \* position in MainRunner.run
    ufolib_reader,       \* self.ufolib_reader is set
    ufoversion,          \* self.ufoversion: << >> is None, <<v>> an integer
    failures_list,       \* self.failures_list
    ufo_glyphs_dir_list, \* self.ufo_glyphs_dir_list
    ufoobj,              \* self.ufoobj: << >> is None, else <<layout record>>
    idx,                 \* index of the running for-loop / validator
    xml_fail_lists,      \* mv_xml_fail_list .. li_xml_fail_list, as returned
    import_fail_lists,   \* mv_ufolib_import_fail_list .. li_..., as returned
    stream,              \* every Result handed to stream_result, in order
    stderr,              \* diagnostics written on termination
    final_reports,       \* the lists handed to stream_final_failures
    exit_status          \* << >> while running, <<s>> once the process ended

pkgvars == <<ufopath, pkgDirExists, metainfoState, formatVersion, readerFault,
             layercontentsState, layercontents, glyphsDirsOnDisk, contentsOnDisk>>
runvars == <<pc, ufolib_reader, ufoversion, failures_list, ufo_glyphs_dir_list,
             ufoobj, idx, xml_fail_lists, import_fail_lists, stream, stderr,
             final_reports, exit_status>>
vars == <<pkgvars, runvars>>

(* ------------------------- names and paths ----------------------------- *)
\* the two command-line paths tried: with and without the .ufo suffix
UfoPaths == { <<"A", ".", "u", "f", "o">>, <<"A", "u", "f", "o">> }

LayerNames == <<"public.default", "public.background", "layer3", "layer4">>
GlyphsDirNames == <<"glyphs", "glyphs.background", "glyphs.layer3", "glyphs.layer4">>
LayerPair(n) == <<LayerNames[n], GlyphsDirNames[n]>>
GlyphsDirs == { GlyphsDirNames[n] : n \in 1..MaxLayers }

\* the lists a layercontents.plist may decode to.  Layer and directory names
\* are arbitrary strings to the runner, so a list of n distinct layers is
\* taken with the first n names, in that order
LayerLists == { [k \in 1..n |-> LayerPair(k)] : n \in 0..MaxLayers }

FormatVersionValues ==
    { [kind |-> "missing", val |-> 0] }
    \cup { [kind |-> "int", val |-> v] : v \in 1..MaxVersion }
    \cup { [kind |-> k, val |-> v] : k \in {"text", "float"}, v \in {2, 3} }

Root == "."
\* os.path.join(self.ufopath, base): a path relative to the package root
join(dir, base) == <<dir, base>>

file_exists(path) ==
    /\ pkgDirExists
    /\ \/ path = join(Root, "metainfo.plist") /\ metainfoState # "absent"
       \/ path = join(Root, "layercontents.plist") /\ layercontentsState # "absent"
       \/ path[2] = "contents.plist" /\ path[1] \in contentsOnDisk

dir_exists(dir) ==
    /\ pkgDirExists
    /\ dir = Root \/ dir \in glyphsDirsOnDisk

(* ------------------------------ Result --------------------------------- *)
Result(target) ==
    [ target |-> target, test_failed |-> FALSE, exit_failure |-> FALSE,
      test_long_stdstream_string |-> "" ]

Failed(res, fatal, msg) ==
    [ res EXCEPT !.test_failed = TRUE, !.exit_failure = fatal,
                 !.test_long_stdstream_string = msg ]

IsResult(e) == "test_failed" \in DOMAIN e

\* StdStreamer.stream_result: print the marker; a failed Result whose
\* exit_failure is set writes its message and ends the process with status 1
stream_result(check, res, next) ==
    /\ stream' = Append(stream, [check |-> check, res |-> res])
    /\ IF res.test_failed /\ res.exit_failure
         THEN /\ pc' = "exit"
              /\ exit_status' = <<1>>
              /\ stderr' = Append(stderr, res.test_long_stdstream_string)
         ELSE /\ pc' = next
              /\ UNCHANGED <<exit_status, stderr>>

\* StdStreamer.stream_final_failures: print the list; status 1 when it is
\* non-empty, status 0 otherwise
stream_final_failures(failures) ==
    /\ final_reports' = Append(final_reports, failures)
    /\ exit_status' = IF Len(failures) > 0 THEN <<1>> ELSE <<0>>
    /\ pc' = "exit"

(* ------------------------------- Init ---------------------------------- *)
Init ==
    /\ ufopath \in UfoPaths
    /\ pkgDirExists \in BOOLEAN
    /\ metainfoState \in {"absent", "malformed", "ok"}
    /\ formatVersion \in FormatVersionValues
    /\ readerFault \in {"none", "UFOLibError", "TypeError", "Exception"}
    /\ layercontentsState \in {"absent", "malformed", "ok"}
    /\ layercontents \in LayerLists
    \* only the glyph directories the package declares are looked at: the
    \* default one on version 2, those of layercontents.plist otherwise
    /\ glyphsDirsOnDisk \in SUBSET
          (IF formatVersion = [kind |-> "int", val |-> 2]
             THEN {"glyphs"}
             ELSE { layercontents[k][2] : k \in DOMAIN layercontents })
    /\ contentsOnDisk \in SUBSET glyphsDirsOnDisk
    \* a missing directory holds nothing; a file that is missing or does not
    \* decode has no content
    /\ ~pkgDirExists =>
          /\ metainfoState = "absent"
          /\ layercontentsState = "absent"
          /\ glyphsDirsOnDisk = {}
    /\ metainfoState # "ok" => formatVersion.kind = "missing"
    /\ layercontentsState # "ok" => layercontents = << >>
    \* UFOReader reads metainfo.plist itself: without an integer formatVersion
    \* there it raises UFOLibError
    /\ (metainfoState # "ok" \/ formatVersion.kind # "int") => readerFault = "UFOLibError"
    /\ pc = "ufo_dir_path"
    /\ ufolib_reader = FALSE
    /\ ufoversion = << >>
    /\ failures_list = << >>
    /\ ufo_glyphs_dir_list = << >>
    /\ ufoobj = << >>
    /\ idx = 1
    /\ xml_fail_lists = << >>
    /\ import_fail_lists = << >>
    /\ stream = << >>
    /\ stderr = << >>
    /\ final_reports = << >>
    /\ exit_status = << >>

(* ----------------------- early fail tests ------------------------------ *)
\* the last four characters of the path: self.ufopath[-4:]
Last4(s) == IF Len(s) <= 4 THEN s ELSE SubSeq(s, Len(s) - 3, Len(s))
DotUfo == <<".", "u", "f", "o">>

ufo_dir_path_result ==
    IF ~dir_exists(Root)
      THEN Failed(Result(ufopath), TRUE, "does not appear to be a valid UFO directory")
      ELSE Result(ufopath)

check_ufo_dir_path_exists ==
    /\ pc = "ufo_dir_path"
    /\ failures_list' =
         IF ~dir_exists(Root)
           THEN Append(failures_list,
                       [str |-> ufo_dir_path_result.test_long_stdstream_string])
           ELSE failures_list
    /\ stream_result("ufo_dir_path", ufo_dir_path_result, "ufo_dir_extension")
    /\ UNCHANGED <<pkgvars, ufolib_reader, ufoversion, ufo_glyphs_dir_list, ufoobj,
                   idx, xml_fail_lists, import_fail_lists, final_reports>>

\* variant: the naming failure also sets exit_failure
ufo_dir_extension_result_fatal ==
    IF Last4(ufopath) = DotUfo
      THEN Result(ufopath)
      ELSE Failed(Result(ufopath), TRUE, "directory does not have a .ufo extension")

ufo_dir_extension_result ==
    IF Last4(ufopath) = DotUfo
      THEN Result(ufopath)
      ELSE Failed(Result(ufopath), FALSE, "directory does not have a .ufo extension")

\* variant: the extension failure is streamed but not kept for the final report
check_ufo_dir_extension_no_append ==
    /\ pc = "ufo_dir_extension"
    /\ stream_result("ufo_dir_extension", ufo_dir_extension_result, "metainfo_exists")
    /\ UNCHANGED <<pkgvars, ufolib_reader, ufoversion, failures_list,
                   ufo_glyphs_dir_list, ufoobj, idx, xml_fail_lists,
                   import_fail_lists, final_reports>>

check_ufo_dir_extension ==
    /\ pc = "ufo_dir_extension"
    /\ failures_list' =
         IF ufo_dir_extension_result.test_failed
           THEN Append(failures_list, ufo_dir_extension_result)
           ELSE failures_list
    /\ stream_result("ufo_dir_extension", ufo_dir_extension_result, "metainfo_exists")
    /\ UNCHANGED <<pkgvars, ufolib_reader, ufoversion, ufo_glyphs_dir_list, ufoobj,
                   idx, xml_fail_lists, import_fail_lists, final_reports>>

\* variant: the missing manifest is reported but does not end the run
metainfo_exists_result_nonfatal ==
    IF file_exists(join(Root, "metainfo.plist"))
      THEN Result(join(Root, "metainfo.plist"))
      ELSE Failed(Result(join(Root, "metainfo.plist")), FALSE,
                  "metainfo.plist was not found")

metainfo_exists_result ==
    IF file_exists(join(Root, "metainfo.plist"))
      THEN Result(join(Root, "metainfo.plist"))
      ELSE Failed(Result(join(Root, "metainfo.plist")), TRUE,
                  "metainfo.plist was not found")

check_metainfo_plist_exists ==
    /\ pc = "metainfo_exists"
    /\ stream_result("metainfo_exists", metainfo_exists_result, "metainfo_types")
    /\ UNCHANGED <<pkgvars, ufolib_reader, ufoversion, failures_list,
                   ufo_glyphs_dir_list, ufoobj, idx, xml_fail_lists,
                   import_fail_lists, final_reports>>

\* variant: isinstance(meta_dict['formatVersion'], (int, float))
IsInt_or_float(fv) == fv.kind \in {"int", "float"}

\* isinstance(meta_dict['formatVersion'], int)
IsInt(fv) == fv.kind = "int"

metainfo_types_result ==
    IF metainfoState # "ok"
      THEN \* load() raised
           Failed(Result(join(Root, "metainfo.plist")), TRUE,
                  "Failed to read the 'formatVersion' value in the file")
      ELSE IF formatVersion.kind # "missing"
             THEN IF IsInt(formatVersion)
                    THEN Result(join(Root, "metainfo.plist"))
                    ELSE Failed(Result(join(Root, "metainfo.plist")), TRUE,
                                "'formatVersion' value must be specified as an integer")
             ELSE Failed(Result(join(Root, "metainfo.plist")), TRUE,
                         "Failed to read the 'formatVersion' value in")

validate_read_data_types_metainfo_plist ==
    /\ pc = "metainfo_types"
    /\ stream_result("metainfo_types", metainfo_types_result, "ufo_import")
    /\ UNCHANGED <<pkgvars, ufolib_reader, ufoversion, failures_list,
                   ufo_glyphs_dir_list, ufoobj, idx, xml_fail_lists,
                   import_fail_lists, final_reports>>

ufo_import_result ==
    CASE readerFault = "none" -> Result(ufopath)
      [] readerFault = "UFOLibError" ->
           Failed(Result(ufopath), TRUE, "ufoLib raised a UFOLibError with import of")
      [] readerFault = "TypeError" ->
           Failed(Result(ufopath), TRUE, "ufoLib raised a TypeError with import of")
      [] OTHER ->
           Failed(Result(ufopath), TRUE, "ufoLib raised an exception with import of")

check_ufo_import_and_define_ufo_version ==
    /\ pc = "ufo_import"
    /\ IF readerFault = "none"
         THEN /\ ufoversion' = <<formatVersion.val>>
              /\ ufolib_reader' = TRUE
              /\ UNCHANGED failures_list
         ELSE /\ failures_list' = Append(failures_list, ufo_import_result)
              /\ UNCHANGED <<ufoversion, ufolib_reader>>
    /\ stream_result("ufo_import", ufo_import_result, "version_branch")
    /\ UNCHANGED <<pkgvars, ufo_glyphs_dir_list, ufoobj, idx, xml_fail_lists,
                   import_fail_lists, final_reports>>

(* ------------------------- version branch ------------------------------ *)
\* the glyphs directory list of a UFO v2 source
\* variant: the version 2 branch leaves the list as it was constructed
ConstructedGlyphsDirList == << >>

DefaultGlyphsDirList == << <<"public.default", "glyphs">> >>

\* a for-loop over an empty list is skipped
LoopEntry(list, loop, after) == IF Len(list) = 0 THEN after ELSE loop

\* "[ufolint] UFO v" + self.ufoversion: str + int raises TypeError, which
\* nothing catches; the interpreter prints the traceback and ends with
\* status 1 before sys.stderr.write is called
unsupported_version_diagnostic(v) ==
    IF v \in Int THEN "Traceback: TypeError" ELSE "[ufolint] UFO v is not supported in ufolint"

\* variant: "if self.ufoversion >= 2"
reads_layercontents_from_v2(version) == version # << >> /\ version[1] >= 2

\* "if self.ufoversion == 3": the branch that reads layercontents.plist
reads_layercontents(version) == version = <<3>>

version_branch ==
    /\ pc = "version_branch"
    /\ IF reads_layercontents(ufoversion)
         THEN /\ pc' = "layercontents_exists"
              /\ UNCHANGED <<ufo_glyphs_dir_list, stderr, exit_status>>
         ELSE IF ufoversion = <<2>>
           THEN /\ ufo_glyphs_dir_list' = DefaultGlyphsDirList
                /\ pc' = LoopEntry(DefaultGlyphsDirList, "glyphs_dirs", "define_ufoobj")
                /\ UNCHANGED <<stderr, exit_status>>
           ELSE /\ stderr' = Append(stderr, unsupported_version_diagnostic(ufoversion[1]))
                /\ exit_status' = <<1>>
                /\ pc' = "exit"
                /\ UNCHANGED ufo_glyphs_dir_list
    /\ idx' = 1
    /\ UNCHANGED <<pkgvars, ufolib_reader, ufoversion, failures_list, ufoobj,
                   xml_fail_lists, import_fail_lists, stream, final_reports>>

layercontents_exists_result ==
    IF file_exists(join(Root, "layercontents.plist"))
      THEN Result(join(Root, "layercontents.plist"))
      ELSE Failed(Result(join(Root, "layercontents.plist")), TRUE,
                  "layercontents.plist was not found")

check_layercontents_plist_exists ==
    /\ pc = "layercontents_exists"
    /\ stream_result("layercontents_exists", layercontents_exists_result,
                     "layercontents_load")
    /\ UNCHANGED <<pkgvars, ufolib_reader, ufoversion, failures_list,
                   ufo_glyphs_dir_list, ufoobj, idx, xml_fail_lists,
                   import_fail_lists, final_reports>>

\* variant: the undecodable layercontents.plist is reported without exit_failure
layercontents_load_result_nonfatal ==
    IF layercontentsState = "ok"
      THEN Result(join(Root, "layercontents.plist"))
      ELSE Failed(Result(join(Root, "layercontents.plist")), FALSE, "Failed to read")

layercontents_load_result ==
    IF layercontentsState = "ok"
      THEN Result(join(Root, "layercontents.plist"))
      ELSE Failed(Result(join(Root, "layercontents.plist")), TRUE, "Failed to read")

\* variant: the decoded layer list is written back with dump, so the
\* layercontents.plist on disk takes the runner's previous list
validate_read_load_glyphsdirs_layercontents_plist_dumping ==
    /\ pc = "layercontents_load"
    /\ ufo_glyphs_dir_list' =
         IF layercontentsState = "ok" THEN layercontents ELSE ufo_glyphs_dir_list
    /\ layercontents' = ufo_glyphs_dir_list
    /\ stream_result("layercontents_load", layercontents_load_result,
                     LoopEntry(ufo_glyphs_dir_list', "glyphs_dirs", "define_ufoobj"))
    /\ UNCHANGED <<ufopath, pkgDirExists, metainfoState, formatVersion, readerFault,
                   layercontentsState, glyphsDirsOnDisk, contentsOnDisk,
                   ufolib_reader, ufoversion, failures_list, ufoobj, idx,
                   xml_fail_lists, import_fail_lists, final_reports>>

validate_read_load_glyphsdirs_layercontents_plist ==
    /\ pc = "layercontents_load"
    /\ ufo_glyphs_dir_list' =
         IF layercontentsState = "ok" THEN layercontents ELSE ufo_glyphs_dir_list
    /\ stream_result("layercontents_load", layercontents_load_result,
                     LoopEntry(ufo_glyphs_dir_list', "glyphs_dirs", "define_ufoobj"))
    /\ UNCHANGED <<pkgvars, ufolib_reader, ufoversion, failures_list, ufoobj, idx,
                   xml_fail_lists, import_fail_lists, final_reports>>

(* ---------------------- glyphs directory sweep ------------------------- *)
\* variant: the missing glyphs directory is reported without exit_failure
glyphs_dir_result_nonfatal(glyphs_dir) ==
    IF dir_exists(glyphs_dir[2])
      THEN Result(<<glyphs_dir[2]>>)
      ELSE [ Result(<<glyphs_dir[2]>>) EXCEPT !.test_failed = TRUE ]

\* variant: exit_failure is set before the directory is tested
glyphs_dir_result_flagged_first(glyphs_dir) ==
    IF dir_exists(glyphs_dir[2])
      THEN [ Result(<<glyphs_dir[2]>>) EXCEPT !.exit_failure = TRUE ]
      ELSE [ Result(<<glyphs_dir[2]>>) EXCEPT !.test_failed = TRUE,
                                              !.exit_failure = TRUE ]

glyphs_dir_result(glyphs_dir) ==
    IF dir_exists(glyphs_dir[2])
      THEN Result(<<glyphs_dir[2]>>)
      ELSE [ Result(<<glyphs_dir[2]>>) EXCEPT !.test_failed = TRUE,
                                              !.exit_failure = TRUE ]

\* one iteration of "for glyphs_dir in self.ufo_glyphs_dir_list"
check_glyphs_dir ==
    /\ pc = "glyphs_dirs"
    /\ idx <= Len(ufo_glyphs_dir_list)
    /\ stream_result("glyphs_dir", glyphs_dir_result(ufo_glyphs_dir_list[idx]),
                     IF idx = Len(ufo_glyphs_dir_list) THEN "define_ufoobj"
                                                       ELSE "glyphs_dirs")
    /\ idx' = idx + 1
    /\ UNCHANGED <<pkgvars, ufolib_reader, ufoversion, failures_list,
                   ufo_glyphs_dir_list, ufoobj, xml_fail_lists,
                   import_fail_lists, final_reports>>

(* ------------------------- mandatory files ----------------------------- *)
\* Ufo2(ufopath, glyphs_dir_list) / Ufo3(ufopath, glyphs_dir_list)
Ufo2(glyphs_dir_list) == [version |-> 2, glyphs_dir_list |-> glyphs_dir_list]
Ufo3(glyphs_dir_list) == [version |-> 3, glyphs_dir_list |-> glyphs_dir_list]

\* Ufo2/Ufo3.get_mandatory_filepaths_list: the root files the version
\* requires, then contents.plist of every glyphs directory
get_mandatory_filepaths_list(obj) ==
    (IF obj.version = 3
       THEN <<join(Root, "metainfo.plist"), join(Root, "layercontents.plist")>>
       ELSE <<join(Root, "metainfo.plist")>>)
    \o [k \in DOMAIN obj.glyphs_dir_list |->
          join(obj.glyphs_dir_list[k][2], "contents.plist")]

define_ufoobj ==
    /\ pc = "define_ufoobj"
    /\ ufoobj' = IF ufoversion = <<2>> THEN <<Ufo2(ufo_glyphs_dir_list)>>
                 ELSE IF ufoversion = <<3>> THEN <<Ufo3(ufo_glyphs_dir_list)>>
                 ELSE ufoobj
    /\ pc' = LoopEntry(get_mandatory_filepaths_list(ufoobj'[1]),
                       "mandatory_files", "xml_validation")
    /\ idx' = 1
    /\ UNCHANGED <<pkgvars, ufolib_reader, ufoversion, failures_list,
                   ufo_glyphs_dir_list, xml_fail_lists, import_fail_lists,
                   stream, stderr, final_reports, exit_status>>

\* variant: the missing file is reported without exit_failure
mandatory_file_result_nonfatal(mandatory_file) ==
    IF file_exists(mandatory_file)
      THEN Result(mandatory_file)
      ELSE Failed(Result(mandatory_file), FALSE, "was not found in")

mandatory_file_result(mandatory_file) ==
    IF file_exists(mandatory_file)
      THEN Result(mandatory_file)
      ELSE Failed(Result(mandatory_file), TRUE, "was not found in")

\* one iteration of "for mandatory_file in mandatory_file_list"
check_mandatory_file ==
    /\ pc = "mandatory_files"
    /\ LET mandatory_file_list == get_mandatory_filepaths_list(ufoobj[1]) IN
         /\ idx <= Len(mandatory_file_list)
         /\ stream_result("mandatory_file",
                          mandatory_file_result(mandatory_file_list[idx]),
                          IF idx = Len(mandatory_file_list) THEN "xml_validation"
                                                            ELSE "mandatory_files")
    /\ idx' = IF pc' = "xml_validation" THEN 1 ELSE idx + 1
    /\ UNCHANGED <<pkgvars, ufolib_reader, ufoversion, failures_list,
                   ufo_glyphs_dir_list, ufoobj, xml_fail_lists,
                   import_fail_lists, final_reports>>

(* --------------------------- validators -------------------------------- *)
\* the order in which run() runs, and appends the lists of, its validators
Validators == << "metainfo", "fontinfo", "groups", "kerning", "lib",
                 "contents", "layercontents", "layerinfo" >>

\* the files a validator governs for this version and these glyphs directories
governed_files(validator, version, glyphs_dir_list) ==
    CASE validator = "contents" ->
           [k \in DOMAIN glyphs_dir_list |-> join(glyphs_dir_list[k][2], "contents.plist")]
      [] validator = "layerinfo" ->
           IF version = <<3>>
             THEN [k \in DOMAIN glyphs_dir_list |->
                     join(glyphs_dir_list[k][2], "layerinfo.plist")]
             ELSE << >>
      [] validator = "layercontents" ->
           IF version = <<3>> THEN <<join(Root, "layercontents.plist")>> ELSE << >>
      [] validator = "metainfo" -> <<join(Root, "metainfo.plist")>>
      [] validator = "fontinfo" -> <<join(Root, "fontinfo.plist")>>
      [] validator = "groups" -> <<join(Root, "groups.plist")>>
      [] validator = "kerning" -> <<join(Root, "kerning.plist")>>
      [] OTHER -> <<join(Root, "lib.plist")>>

\* files the runner has decoded itself before the validators run
decoded_by_runner(version) ==
    {join(Root, "metainfo.plist")}
    \cup (IF version = <<3>> THEN {join(Root, "layercontents.plist")} ELSE {})

RECURSIVE Flatten(_)
Flatten(lists) ==
    IF lists = << >> THEN << >> ELSE Head(lists) \o Flatten(Tail(lists))

targets(results) == { results[k].target : k \in DOMAIN results }

\* one Result per governed file, failed (never fatal) for the files in bad
validator_results(files, bad, msg) ==
    [k \in DOMAIN files |->
       IF files[k] \in bad THEN Failed(Result(files[k]), FALSE, msg)
                           ELSE Result(files[k])]

failed_of(results) == SelectSeq(results, LAMBDA r : r.test_failed)

stream_all(check, results) ==
    stream' = stream \o [k \in DOMAIN results |-> [check |-> check, res |-> results[k]]]

\* failures found so far, appended to self.failures_list or about to be
failures_so_far ==
    Len(failures_list)
    + (IF pc = "xml_validation" THEN Len(Flatten(xml_fail_lists)) ELSE 0)
    + Len(Flatten(import_fail_lists))

(* --------------------- XML validation tests ---------------------------- *)
\* variant: the validators after a failing one are skipped
xml_stop_on_failure(fail_list) == fail_list = << >>

\* which validators run after the one that returned fail_list
xml_continue(fail_list) == TRUE

\* <validator>.run_xml_validation() for the validator at position idx: bad
\* are the governed files that are not well-formed XML
run_xml_validation ==
    /\ pc = "xml_validation"
    /\ idx <= Len(Validators)
    /\ LET files == governed_files(Validators[idx], ufoversion, ufo_glyphs_dir_list)
           candidates == { files[k] : k \in DOMAIN files } \ decoded_by_runner(ufoversion)
       IN \E bad \in SUBSET candidates :
            /\ failures_so_far + Cardinality(bad) <= MaxFailures
            /\ LET results == validator_results(files, bad, "XML parse error") IN
                 /\ stream_all("xml", results)
                 /\ xml_fail_lists' = Append(xml_fail_lists, failed_of(results))
                 /\ IF idx = Len(Validators) \/ ~xml_continue(failed_of(results))
                      THEN pc' = "xml_append" /\ idx' = 1
                      ELSE pc' = pc /\ idx' = idx + 1
    /\ UNCHANGED <<pkgvars, ufolib_reader, ufoversion, failures_list,
                   ufo_glyphs_dir_list, ufoobj, import_fail_lists, stderr,
                   final_reports, exit_status>>

\* variant: the last list is left out of the tuple that is looped over
append_fail_lists_but_last(failures, lists) ==
    failures \o Flatten(SubSeq(lists, 1, Len(lists) - 1))

\* "for thelist in (mv_xml_fail_list, ...): for failed_test_result in thelist"
append_fail_lists(failures, lists) == failures \o Flatten(lists)

append_xml_failures ==
    /\ pc = "xml_append"
    /\ failures_list' = append_fail_lists(failures_list, xml_fail_lists)
    /\ pc' = "plist_spec"
    /\ idx' = 1
    /\ UNCHANGED <<pkgvars, ufolib_reader, ufoversion, ufo_glyphs_dir_list, ufoobj,
                   xml_fail_lists, import_fail_lists, stream, stderr,
                   final_reports, exit_status>>

(* ------------------- plist file validation tests ----------------------- *)
\* <validator>.run_ufolib_import_validation() for the validator at position
\* idx: the rules are evaluated on the governed files that decoded, and
\* violating are those that break one
run_ufolib_import_validation ==
    /\ pc = "plist_spec"
    /\ idx <= Len(Validators)
    /\ LET files == governed_files(Validators[idx], ufoversion, ufo_glyphs_dir_list)
           decoded == SelectSeq(files, LAMBDA f : f \notin targets(xml_fail_lists[idx]))
       IN \E violating \in SUBSET { decoded[k] : k \in DOMAIN decoded } :
            /\ failures_so_far + Cardinality(violating) <= MaxFailures
            /\ LET results == validator_results(decoded, violating, "plist spec violation") IN
                 /\ stream_all("plist_spec", results)
                 /\ import_fail_lists' = Append(import_fail_lists, failed_of(results))
    /\ IF idx = Len(Validators)
         THEN pc' = "import_append" /\ idx' = 1
         ELSE pc' = pc /\ idx' = idx + 1
    /\ UNCHANGED <<pkgvars, ufolib_reader, ufoversion, failures_list,
                   ufo_glyphs_dir_list, ufoobj, xml_fail_lists, stderr,
                   final_reports, exit_status>>

append_import_failures ==
    /\ pc = "import_append"
    /\ failures_list' = append_fail_lists(failures_list, import_fail_lists)
    /\ pc' = "final_report"
    /\ UNCHANGED <<pkgvars, ufolib_reader, ufoversion, ufo_glyphs_dir_list, ufoobj,
                   idx, xml_fail_lists, import_fail_lists, stream, stderr,
                   final_reports, exit_status>>

(* --------------------------- tests completed --------------------------- *)
\* variant: only the plist spec failures are handed to the final report
final_report_import_only ==
    /\ pc = "final_report"
    /\ stream_final_failures(Flatten(import_fail_lists))
    /\ UNCHANGED <<pkgvars, ufolib_reader, ufoversion, failures_list,
                   ufo_glyphs_dir_list, ufoobj, idx, xml_fail_lists,
                   import_fail_lists, stream, stderr>>

\* variant: the failure list is handed to the final report a second time
final_report_twice ==
    /\ pc = "final_report"
    /\ final_reports' = final_reports \o <<failures_list, failures_list>>
    /\ exit_status' = IF Len(failures_list) > 0 THEN <<1>> ELSE <<0>>
    /\ pc' = "exit"
    /\ UNCHANGED <<pkgvars, ufolib_reader, ufoversion, failures_list,
                   ufo_glyphs_dir_list, ufoobj, idx, xml_fail_lists,
                   import_fail_lists, stream, stderr>>

final_report ==
    /\ pc = "final_report"
    /\ stream_final_failures(failures_list)
    /\ UNCHANGED <<pkgvars, ufolib_reader, ufoversion, failures_list,
                   ufo_glyphs_dir_list, ufoobj, idx, xml_fail_lists,
                   import_fail_lists, stream, stderr>>


Next ==
    \/ check_ufo_dir_path_exists
    \/ check_ufo_dir_extension
    \/ check_metainfo_plist_exists
    \/ validate_read_data_types_metainfo_plist
    \/ check_ufo_import_and_define_ufo_version
    \/ version_branch
    \/ check_layercontents_plist_exists
    \/ validate_read_load_glyphsdirs_layercontents_plist
    \/ check_glyphs_dir
    \/ define_ufoobj
    \/ check_mandatory_file
    \/ run_xml_validation
    \/ append_xml_failures
    \/ run_ufolib_import_validation
    \/ append_import_failures
    \/ final_report

Spec == Init /\ [][Next]_vars

\* run() is one sequential thread of control: the interpreter goes on to the
\* next statement until sys.exit or the end of run()
FairSpec == Spec /\ WF_vars(Next)

(* ======================== properties of a run ========================== *)
Entries(check) == SelectSeq(stream, LAMBDA e : e.check = check)
HasCheck(check) == \E k \in DOMAIN stream : stream[k].check = check
IsFatal(res) == res.test_failed /\ res.exit_failure
\* the process ended before the final report / after it
Halted == pc = "exit" /\ final_reports = << >>
Completed == pc = "exit" /\ final_reports # << >>
LastEntry == stream[Len(stream)]

\* the precondition tested by the check that streamed entry e does not hold
CheckFails(e) ==
    CASE e.check = "ufo_dir_path" -> ~pkgDirExists
      [] e.check = "metainfo_exists" -> metainfoState = "absent"
      [] e.check = "metainfo_types" -> metainfoState # "ok" \/ formatVersion.kind # "int"
      [] e.check = "ufo_import" -> readerFault # "none"
      [] e.check = "layercontents_exists" -> layercontentsState = "absent"
      [] e.check = "layercontents_load" -> layercontentsState # "ok"
      [] e.check = "mandatory_file" -> ~file_exists(e.res.target)
      [] OTHER -> FALSE

\* C1: once a fatal check fails (package directory, metainfo.plist, the
\* formatVersion pre-check, the ufoLib import, layercontents.plist missing or
\* undecodable, a mandatory file missing) the run has halted at that check
\* with status 1: its Result is the last one streamed, no validator has run
\* and the final report is never made.
C1_FatalCheckHalts ==
    \A k \in DOMAIN stream :
        CheckFails(stream[k]) =>
            /\ k = Len(stream)
            /\ IsFatal(stream[k].res)
            /\ Halted
            /\ exit_status = <<1>>
            /\ xml_fail_lists = << >>
            /\ import_fail_lists = << >>
            /\ ~HasCheck("xml")

\* a mandatory file is missing behind one that was found: the run has halted
C1_Witness ==
    /\ Halted
    /\ Len(Entries("mandatory_file")) >= 2
    /\ LastEntry.check = "mandatory_file"
    /\ ~file_exists(LastEntry.res.target)

\* C2 as stated: a missing glyphs directory does not end the run; every
\* entry of the glyphs directory list is checked and the mandatory file
\* tests follow.
C2_Original_SweepContinues ==
    /\ \A k \in DOMAIN stream :
         (stream[k].check = "glyphs_dir" /\ stream[k].res.test_failed)
            => ~stream[k].res.exit_failure
    /\ (pc = "exit" /\ HasCheck("glyphs_dir")) =>
          /\ Len(Entries("glyphs_dir")) = Len(ufo_glyphs_dir_list)
          /\ HasCheck("mandatory_file")

\* C2 amended: the glyphs directories are checked in list order, a missing
\* one gets a failed Result with exit_failure set and the run halts there
\* with status 1: no later directory and no mandatory file is checked, and
\* the sweep adds nothing to the failure list.
C2_SweepFailsFast ==
    LET sweep == Entries("glyphs_dir") IN
    /\ Len(sweep) <= Len(ufo_glyphs_dir_list)
    /\ \A k \in DOMAIN sweep :
         /\ sweep[k].res.target = <<ufo_glyphs_dir_list[k][2]>>
         /\ sweep[k].res.test_failed <=> ufo_glyphs_dir_list[k][2] \notin glyphsDirsOnDisk
         /\ sweep[k].res.test_failed =>
              /\ IsFatal(sweep[k].res)
              /\ k = Len(sweep)
              /\ LastEntry = sweep[k]
              /\ Halted
              /\ exit_status = <<1>>
              /\ ufoobj = << >>
              /\ ~HasCheck("mandatory_file")
    /\ HasCheck("mandatory_file") => Len(sweep) = Len(ufo_glyphs_dir_list)
    /\ \A j \in DOMAIN failures_list :
         IsResult(failures_list[j]) => Len(failures_list[j].target) # 1

\* two layers listed, the first directory missing, the second on disk: the
\* run halted on the first
C2_Witness ==
    /\ Halted
    /\ Len(ufo_glyphs_dir_list) = 2
    /\ Len(Entries("glyphs_dir")) = 1
    /\ LastEntry.check = "glyphs_dir"
    /\ ufo_glyphs_dir_list[1][2] \notin glyphsDirsOnDisk
    /\ ufo_glyphs_dir_list[2][2] \in glyphsDirsOnDisk

\* a package that passes every layout and mandatory-file check
WellFormedPackage ==
    /\ Last4(ufopath) = DotUfo
    /\ pkgDirExists
    /\ metainfoState = "ok"
    /\ formatVersion.kind = "int"
    /\ formatVersion.val \in {2, 3}
    /\ readerFault = "none"
    /\ formatVersion.val = 2 => "glyphs" \in contentsOnDisk
    /\ formatVersion.val = 3 =>
          /\ layercontentsState = "ok"
          /\ \A k \in DOMAIN layercontents : layercontents[k][2] \in contentsOnDisk

\* C3: the process status is 0 exactly when the run reached the final
\* report with an empty failure list, and 1 otherwise; a well-formed
\* version 2 or 3 package in which no validator finds anything ends with an
\* empty failure list and status 0.
C3_ExitStatus ==
    /\ pc # "exit" => exit_status = << >>
    /\ pc = "exit" =>
          /\ exit_status \in {<<0>>, <<1>>}
          /\ exit_status = <<0>> <=> (Completed /\ failures_list = << >>)
    /\ ( /\ pc = "exit"
         /\ WellFormedPackage
         /\ Flatten(xml_fail_lists) = << >>
         /\ Flatten(import_fail_lists) = << >> ) =>
          /\ Completed
          /\ failures_list = << >>
          /\ exit_status = <<0>>

\* a version 3 package with two layers ended with status 0
C3_Witness ==
    /\ pc = "exit"
    /\ exit_status = <<0>>
    /\ ufoversion = <<3>>
    /\ Len(ufo_glyphs_dir_list) = 2

\* metainfo.plist exists and does not decode, or holds no integer formatVersion
BadFormatVersion ==
    /\ pkgDirExists
    /\ metainfoState # "absent"
    /\ metainfoState = "malformed" \/ formatVersion.kind # "int"

\* C4: a package whose metainfo.plist does not decode, lacks formatVersion
\* or holds it as text or as a float halts at the value-type pre-check (the
\* fourth Result, fatal, status 1) and UFOReader is never called.
C4_PreCheckHalts ==
    BadFormatVersion =>
        /\ ~HasCheck("ufo_import")
        /\ ~ufolib_reader
        /\ ufoversion = << >>
        /\ Len(stream) <= 4
        /\ Len(stream) = 4 =>
              /\ LastEntry.check = "metainfo_types"
              /\ IsFatal(LastEntry.res)
              /\ Halted
              /\ exit_status = <<1>>
        /\ pc = "exit" => Len(stream) = 4

\* formatVersion stored as the float 3.0: halted at the pre-check
C4_Witness ==
    /\ Halted
    /\ formatVersion = [kind |-> "float", val |-> 3]
    /\ LastEntry.check = "metainfo_types"

\* C5: on version 2 neither layercontents.plist check is ever made, and from
\* the version branch on the glyphs directory list is the single pair
\* ("public.default", "glyphs").
C5_Version2NoLayerManifest ==
    ufoversion = <<2>> =>
        /\ ~HasCheck("layercontents_exists")
        /\ ~HasCheck("layercontents_load")
        /\ pc \notin {"layercontents_exists", "layercontents_load"}
        /\ pc # "version_branch" =>
              ufo_glyphs_dir_list = << <<"public.default", "glyphs">> >>

\* a version 2 package that holds a layercontents.plist naming a layer ran
\* to the final report
C5_Witness ==
    /\ ufoversion = <<2>>
    /\ Completed
    /\ layercontentsState = "ok"
    /\ layercontents # << >>

TotalGoverned ==
    Len(Flatten([k \in DOMAIN Validators |->
                   governed_files(Validators[k], ufoversion, ufo_glyphs_dir_list)]))
XmlDone == pc \in {"xml_append", "plist_spec", "import_append", "final_report"} \/ Completed
XmlAppended == pc \in {"plist_spec", "import_append", "final_report"} \/ Completed
InSeq(x, seq) == \E k \in DOMAIN seq : seq[k] = x

\* C6: the XML validation tests never end the run: each of the eight
\* validators runs whatever the earlier ones returned, every governed file
\* gets its Result, and every failure returned is in the failure list,
\* failed and without exit_failure.
C6_XmlPhaseNeverHalts ==
    /\ pc = "xml_validation" =>
          /\ exit_status = << >>
          /\ Len(xml_fail_lists) = idx - 1
    /\ xml_fail_lists # << >> => ~Halted
    /\ XmlDone =>
          /\ Len(xml_fail_lists) = Len(Validators)
          /\ Len(Entries("xml")) = TotalGoverned
    /\ XmlAppended =>
          \A k \in DOMAIN xml_fail_lists : \A j \in DOMAIN xml_fail_lists[k] :
              /\ InSeq(xml_fail_lists[k][j], failures_list)
              /\ xml_fail_lists[k][j].test_failed
              /\ ~xml_fail_lists[k][j].exit_failure

\* fontinfo.plist was malformed and the last validator still ran and failed
C6_Witness ==
    /\ pc = "plist_spec"
    /\ xml_fail_lists[2] # << >>
    /\ xml_fail_lists[8] # << >>

ImportDone == pc \in {"import_append", "final_report"} \/ Completed
Suffix(seq, n) == SubSeq(seq, Len(seq) - n + 1, Len(seq))

\* C7: the plist spec tests never end the run and run whatever the XML
\* tests found: every validator runs, the files that decoded (all governed
\* files but the malformed ones) are each evaluated, the failure list ends
\* with the XML failures followed by the spec violations, and from the spec
\* tests on a next step is always possible until the final report.
C7_ConformanceNeverHalts ==
    /\ pc \in {"plist_spec", "import_append", "final_report"} =>
          /\ exit_status = << >>
          /\ ENABLED Next
    /\ pc = "plist_spec" => Len(import_fail_lists) = idx - 1
    /\ import_fail_lists # << >> => ~Halted
    /\ ImportDone =>
          /\ Len(import_fail_lists) = Len(Validators)
          /\ Len(Entries("plist_spec")) = TotalGoverned - Len(Flatten(xml_fail_lists))
          /\ \A k \in DOMAIN Validators :
               LET files == governed_files(Validators[k], ufoversion, ufo_glyphs_dir_list) IN
               \A j \in DOMAIN files :
                   files[j] \notin targets(xml_fail_lists[k]) =>
                      \E e \in DOMAIN stream :
                          stream[e].check = "plist_spec" /\ stream[e].res.target = files[j]
    /\ (pc = "final_report" \/ Completed) =>
          LET found == Flatten(xml_fail_lists) \o Flatten(import_fail_lists) IN
          /\ Len(failures_list) >= Len(found)
          /\ Suffix(failures_list, Len(found)) = found
          /\ Len(failures_list) - Len(found) <= 1

\* ten governed files, three of them malformed: three XML failures recorded,
\* the spec tests ran on the other seven and the final report was made
C7_Witness ==
    /\ Completed
    /\ TotalGoverned = 10
    /\ Len(Flatten(xml_fail_lists)) = 3
    /\ Len(Entries("plist_spec")) = 7
    /\ Len(failures_list) = 3

\* C8: a path without the .ufo suffix fails the extension check without
\* ending the run: the failed Result has no exit_failure and is the first
\* entry of the failure list, the metainfo.plist check follows, and a run
\* that reaches the final report ends with a non-empty list and status 1.
C8_ExtensionNonFatal ==
    Last4(ufopath) # DotUfo =>
        /\ Len(stream) >= 2 =>
              /\ stream[2].check = "ufo_dir_extension"
              /\ stream[2].res.test_failed
              /\ ~stream[2].res.exit_failure
              /\ failures_list # << >>
              /\ failures_list[1] = stream[2].res
        /\ Len(stream) = 2 => pc = "metainfo_exists" /\ exit_status = << >>
        /\ Len(stream) >= 3 => stream[3].check = "metainfo_exists"
        /\ Completed => failures_list # << >> /\ exit_status = <<1>>

\* a package without the suffix ran through every phase to the final report
C8_Witness ==
    /\ Last4(ufopath) # DotUfo
    /\ Completed
    /\ HasCheck("plist_spec")

\* C9 as stated: every path of the mandatory list gets its Result, also
\* behind a missing one, and only then does the run halt.
C9_Original_WholeListChecked ==
    (pc = "exit" /\ HasCheck("mandatory_file")) =>
        Len(Entries("mandatory_file")) = Len(get_mandatory_filepaths_list(ufoobj[1]))

\* C9 amended: the mandatory paths are tested in list order; the first
\* missing one gets a failed Result with exit_failure set and the run halts
\* there with status 1, so the paths behind it get no Result; the XML
\* validation tests start only when every path of the list was found.
C9_MandatoryFailsFast ==
    LET tested == Entries("mandatory_file") IN
    /\ ufoobj = << >> => tested = << >>
    /\ ufoobj # << >> =>
          LET list == get_mandatory_filepaths_list(ufoobj[1]) IN
          /\ Len(tested) <= Len(list)
          /\ \A k \in DOMAIN tested :
               /\ tested[k].res.target = list[k]
               /\ tested[k].res.test_failed <=> ~file_exists(list[k])
               /\ tested[k].res.test_failed =>
                    /\ IsFatal(tested[k].res)
                    /\ k = Len(tested)
                    /\ LastEntry = tested[k]
                    /\ Halted
                    /\ exit_status = <<1>>
          /\ (pc = "xml_validation" \/ xml_fail_lists # << >>) =>
               /\ Len(tested) = Len(list)
               /\ \A k \in DOMAIN list : file_exists(list[k])

\* four mandatory paths, the third and the fourth missing: the run halted
\* on the third and the fourth got no Result
C9_Witness ==
    /\ Halted
    /\ ufoobj # << >>
    /\ Len(get_mandatory_filepaths_list(ufoobj[1])) = 4
    /\ Len(Entries("mandatory_file")) = 3
    /\ LastEntry.check = "mandatory_file"
    /\ ~file_exists(get_mandatory_filepaths_list(ufoobj[1])[4])

\* C10: an integer version other than 2 and 3 ends the run at the version
\* branch with the unsupported-version diagnostic on stderr and status 1,
\* without a Result or a final report, and no glyphs directory, mandatory
\* file, XML or plist spec check runs.
C10_UnsupportedVersionDiagnostic ==
    (pc = "exit" /\ ufoversion # << >> /\ ufoversion[1] \notin {2, 3}) =>
        /\ stderr = <<"[ufolint] UFO v is not supported in ufolint">>
        /\ exit_status = <<1>>
        /\ final_reports = << >>
        /\ LastEntry.check = "ufo_import"
        /\ ~LastEntry.res.test_failed

\* C12: no step of a run changes the package: its directory, metainfo.plist,
\* layercontents.plist, glyphs directories and files are after every check,
\* halting or not, what they were before it.
C12_PackageReadOnly == [][UNCHANGED pkgvars]_vars

\* a version 3 package with two declared layers has gone through every phase
\* to the final report, its layercontents.plist read on the way
C12_Witness ==
    /\ Completed
    /\ ufoversion = <<3>>
    /\ layercontentsState = "ok"
    /\ Len(layercontents) = 2
    /\ ufo_glyphs_dir_list = layercontents
    /\ Len(import_fail_lists) = 8

\* C13: a step that halts the run on a fatal failed Result leaves the failure
\* list as it was, unless it is the ufoLib import check, which appends its
\* Result: the package directory, metainfo.plist, formatVersion pre-check and
\* layercontents.plist checks append nothing before the halt.
C13_OnlyImportFailureRetained ==
    [][(pc' = "exit" /\ final_reports' = << >> /\ Len(stream') = Len(stream) + 1
          /\ IsFatal(stream'[Len(stream')].res)) =>
            IF pc = "ufo_import"
              THEN failures_list' = Append(failures_list, stream'[Len(stream')].res)
              ELSE failures_list' = failures_list]_vars

\* C14 as stated: at every point of a run each failed Result streamed so
\* far, fatal or not, is an entry of the failure list.
C14_Original_EveryFailureRetained ==
    \A k \in DOMAIN stream :
        stream[k].res.test_failed => InSeq(stream[k].res, failures_list)

\* C14: a failed Result that does not end the run is kept: the extension
\* failure is in the failure list from the moment it is streamed, the XML
\* failures from the end of the XML phase and the plist spec failures from
\* the end of their phase, so that at the final report every failed Result
\* streamed is an entry of the list handed over. A failed Result that ends
\* the run is in the failure list only when it is the import failure.
C14_NonFatalFailuresRetained ==
    /\ \A k \in DOMAIN stream :
          stream[k].res.test_failed =>
              CASE stream[k].check \in {"ufo_dir_extension", "ufo_import"} ->
                       InSeq(stream[k].res, failures_list)
                [] stream[k].check = "xml" ->
                       /\ ~stream[k].res.exit_failure
                       /\ InSeq(stream[k].res, failures_list) <=> XmlAppended
                [] stream[k].check = "plist_spec" ->
                       /\ ~stream[k].res.exit_failure
                       /\ InSeq(stream[k].res, failures_list) <=>
                              (pc = "final_report" \/ Completed)
                [] OTHER ->
                       /\ IsFatal(stream[k].res)
                       /\ Halted
                       /\ ~InSeq(stream[k].res, failures_list)
    /\ Completed =>
          \A k \in DOMAIN stream :
              stream[k].res.test_failed => InSeq(stream[k].res, final_reports[1])

\* a run without the .ufo suffix was completed with an XML failure and a
\* plist spec failure: all three failed Results were handed over
C14_Witness ==
    /\ Completed
    /\ Len(final_reports[1]) = 3
    /\ Len(Entries("ufo_dir_extension")) = 1
    /\ Entries("ufo_dir_extension")[1].res.test_failed
    /\ \E k \in DOMAIN stream : stream[k].check = "xml" /\ stream[k].res.test_failed
    /\ \E k \in DOMAIN stream :
          stream[k].check = "plist_spec" /\ stream[k].res.test_failed

\* the run has left the version branch with a supported version: the glyphs
\* directory sweep is next, running or behind
PastVersionBranch ==
    \/ pc \in {"glyphs_dirs", "define_ufoobj", "mandatory_files", "xml_validation",
               "xml_append", "plist_spec", "import_append", "final_report"}
    \/ pc = "exit" /\ (HasCheck("glyphs_dir") \/ ufoobj # << >>)

\* C15 as stated: with version 2 or 3 and the version branch behind, the
\* glyphs directory list is non-empty, whatever layercontents.plist decoded to.
C15_Original_GlyphLayersNonEmpty ==
    (ufoversion \in {<<2>>, <<3>>} /\ PastVersionBranch) =>
        ufo_glyphs_dir_list # << >>

\* C15: behind the version branch the version is 2 or 3; with version 2 the
\* glyphs directory list is the one default layer, and with version 3 it is
\* the sequence layercontents.plist decoded to, which is empty when the file
\* holds an empty sequence and non-empty otherwise.
C15_GlyphLayersAsDeclared ==
    PastVersionBranch =>
        /\ ufoversion \in {<<2>>, <<3>>}
        /\ ufoversion = <<2>> =>
              ufo_glyphs_dir_list = << <<"public.default", "glyphs">> >>
        /\ ufoversion = <<3>> =>
              /\ layercontentsState = "ok"
              /\ ufo_glyphs_dir_list = layercontents
              /\ (ufo_glyphs_dir_list = << >>) <=> (Len(layercontents) = 0)

\* a version 3 package whose layercontents.plist holds an empty sequence was
\* linted to the final report with an empty glyphs directory list
C15_Witness ==
    /\ Completed
    /\ ufoversion = <<3>>
    /\ layercontents = << >>
    /\ ufo_glyphs_dir_list = << >>
    /\ ~HasCheck("glyphs_dir")

\* place of a failure list entry in the order of discovery: the phase that
\* found it, then the validator governing its file
PhaseRank(e) ==
    CASE e.test_long_stdstream_string = "XML parse error" -> 2
      [] e.test_long_stdstream_string = "plist spec violation" -> 3
      [] OTHER -> 1
TypeRank(e) ==
    IF PhaseRank(e) = 1 THEN 0
    ELSE CHOOSE v \in DOMAIN Validators :
           \E k \in DOMAIN governed_files(Validators[v], ufoversion, ufo_glyphs_dir_list) :
               governed_files(Validators[v], ufoversion, ufo_glyphs_dir_list)[k] = e.target
FailuresAreResults ==
    \A k \in DOMAIN failures_list :
        IsResult(failures_list[k]) /\ failures_list[k].test_failed
FailuresInDiscoveryOrder ==
    \A j, k \in { i \in DOMAIN failures_list : IsResult(failures_list[i]) } :
        j < k =>
            \/ PhaseRank(failures_list[j]) < PhaseRank(failures_list[k])
            \/ /\ PhaseRank(failures_list[j]) = PhaseRank(failures_list[k])
               /\ TypeRank(failures_list[j]) <= TypeRank(failures_list[k])
FailuresOnlyAppended ==
    /\ Len(failures_list') >= Len(failures_list)
    /\ SubSeq(failures_list', 1, Len(failures_list)) = failures_list

\* C16: the failure list is at all times a sequence of failed Results in the
\* order of discovery: layout entries before well-formedness entries before
\* conformance entries, within the last two in the order metainfo, fontinfo,
\* groups, kerning, lib, contents, layercontents, layerinfo; and no step
\* removes or reorders an entry.
C16_FailureListOrdered ==
    /\ [](FailuresAreResults /\ FailuresInDiscoveryOrder)
    /\ [][FailuresOnlyAppended]_vars

\* the run went through the four phases: layout checks, mandatory files,
\* the eight XML validations and the eight plist spec validations
FullRun ==
    /\ HasCheck("ufo_import")
    /\ ufoobj # << >>
    /\ Len(Entries("mandatory_file")) = Len(get_mandatory_filepaths_list(ufoobj[1]))
    /\ Len(xml_fail_lists) = Len(Validators)
    /\ Len(import_fail_lists) = Len(Validators)

\* C17 as stated: every run terminates, by an early halt with status 1 or
\* by a full run, and in either case the failure list has been handed to the
\* final report exactly once when the run has ended.
C17_Original_HandedOncePerRun ==
    /\ <>(pc = "exit")
    /\ [](pc = "exit" =>
            /\ Len(final_reports) = 1
            /\ \/ exit_status = <<1>> /\ ~FullRun
               \/ FullRun)

\* C17: every run terminates, and it has then ended in exactly one of two
\* ways: an early halt with status 1 before the final report, the failure
\* list handed over not at all, or a full run through the four phases with
\* the failure list handed to the final report exactly once; at no point has
\* the list been handed over more than once.
C17_TerminatesOneWay ==
    /\ <>(pc = "exit")
    /\ [](pc = "exit" =>
            \/ /\ Halted
               /\ exit_status = <<1>>
               /\ ~FullRun
            \/ /\ Completed
               /\ FullRun
               /\ final_reports = <<failures_list>>
               /\ exit_status \in {<<0>>, <<1>>})
    /\ [](Len(final_reports) <= 1)
    /\ [](pc # "exit" => final_reports = << >> /\ exit_status = << >>)

\* the run was halted by a missing glyphs directory: status 1 and the
\* failure list, holding the extension failure, was never handed over
C17_Witness ==
    /\ Halted
    /\ exit_status = <<1>>
    /\ LastEntry.check = "glyphs_dir"
    /\ Len(failures_list) = 1
    /\ final_reports = << >>

\* the run is in the mandatory file tests or behind them
InMandatoryPhaseOrLater ==
    \/ pc \in {"mandatory_files", "xml_validation", "xml_append", "plist_spec",
               "import_append", "final_report"}
    \/ pc = "exit" /\ HasCheck("mandatory_file")

\* C18: in the mandatory file tests and in everything after them the version
\* is 2 or 3, never unset; the layout object exists, of the variant for that
\* version and built from the resolved glyphs directory list; and with
\* version 3 layercontents.plist was found and decoded before. The package
\* was imported and every glyphs directory of the list exists.
C18_ReadyForMandatoryPhase ==
    InMandatoryPhaseOrLater =>
        /\ ufoversion \in {<<2>>, <<3>>}
        /\ ufolib_reader
        /\ ufoobj = << [version |-> ufoversion[1],
                        glyphs_dir_list |-> ufo_glyphs_dir_list] >>
        /\ ufoversion = <<3>> =>
              /\ layercontentsState = "ok"
              /\ ufo_glyphs_dir_list = layercontents
              /\ Len(Entries("layercontents_exists")) = 1
              /\ Len(Entries("layercontents_load")) = 1
              /\ ~Entries("layercontents_exists")[1].res.test_failed
              /\ ~Entries("layercontents_load")[1].res.test_failed
        /\ \A k \in DOMAIN ufo_glyphs_dir_list :
              dir_exists(ufo_glyphs_dir_list[k][2])

\* a version 3 package with two layers is in the middle of its mandatory
\* file tests
C18_Witness ==
    /\ pc = "mandatory_files"
    /\ idx = 3
    /\ ufoversion = <<3>>
    /\ Len(ufo_glyphs_dir_list) = 2

\* C19: every Result that was streamed or kept in the failure list with
\* exit_failure set is a failed one, and a run that ended before the final
\* report behind a passing Result was ended by the version branch, not by
\* that Result.
C19_FatalImpliesFailed ==
    /\ \A k \in DOMAIN stream :
          stream[k].res.exit_failure => stream[k].res.test_failed
    /\ \A k \in DOMAIN failures_list :
          IsResult(failures_list[k]) =>
              (failures_list[k].exit_failure => failures_list[k].test_failed)
    /\ (Halted /\ stream # << >> /\ ~LastEntry.res.test_failed) =>
          /\ LastEntry.check = "ufo_import"
          /\ ufoversion[1] \notin {2, 3}

\* layercontents.plist is missing in a version 3 package: five passing
\* Results were streamed, none of them flagged, and then the fatal one
C19_Witness ==
    /\ Halted
    /\ Len(stream) = 6
    /\ LastEntry.check = "layercontents_exists"
    /\ IsFatal(LastEntry.res)
    /\ \A k \in 1..5 : ~stream[k].res.test_failed /\ ~stream[k].res.exit_failure
====
